---------------------------- MODULE Spec2Model ----------------------------
(***************************************************************************)
(* A model of royal-highway: the extraction pipeline (src/rr.py)           *)
(*   - fetch_chapter_content     the polite fetcher and its retry loop      *)
(*   - _extract_js_array         the bracket-depth scan                     *)
(*   - extract_window_chapters   the checks on the parsed array             *)
(*   - bracket_to_bold_html_from_text   the plain-text markup normalizer    *)
(*   - apply_bracket_bolding_to_text_nodes, strip_single_line_between_brs,  *)
(*     sanitize_fragment_html    the DOM passes                             *)
(*   - parse_fiction_slug        the fiction URL and its key                *)
(* and the compile_chunk handler (src/app.py) over the chapter cache       *)
(* (src/cache.py).                                                         *)
(*                                                                         *)
(* A Python string is a sequence of units.  A unit is a one-character      *)
(* string, except for the texts the code itself emits as a whole: the      *)
(* placeholder "@@BOLDn@@", the markers "<strong>" and "</strong>", and    *)
(* the entities of html.escape.                                            *)
(***************************************************************************)
EXTENDS Integers, Sequences, FiniteSets, TLC

VARIABLES fetch, arr, chap, bold, dom, slug, app

vars == <<fetch, arr, chap, bold, dom, slug, app>>

\* The value of a component that is not running in the specification at hand.
Idle == [pc |-> "idle"]

(***************************************************************************)
(* Generic helpers on sequences.                                           *)
(***************************************************************************)

\* All sequences over S of length 0..n.
SeqsUpTo(S, n) == UNION {[1..k -> S] : k \in 0..n}

\* s[i:j] of Python for 0-based i, j (j exclusive), as a 1-based sequence.
Slice(s, i, j) == SubSeq(s, i + 1, j)

\* Does sub occur in s at 0-based offset i ?
OccursAt(s, sub, i) ==
    /\ i + Len(sub) <= Len(s)
    /\ \A k \in 1..Len(sub) : s[i + k] = sub[k]

\* str.find(sub, start): the lowest 0-based index >= start, or -1.
Find(s, sub, start) ==
    LET hits == {i \in start..Len(s) : OccursAt(s, sub, i)}
    IN  IF hits = {} THEN -1 ELSE CHOOSE i \in hits : \A j \in hits : i <= j

(***************************************************************************)
(* fetch_chapter_content: the retry loop.                                  *)
(***************************************************************************)

\* Bounds of the fetch model.
MaxRetries == 3

\* The statuses the transport may answer with.
Statuses == {200, 304, 404, 429, 500, 503}

\* last_err = None
None == 0

\* A mutant of IsRetryStatus: every 5xx answer is retried.
IsRetryStatus_any5xx(status) == status = 429 \/ (status >= 500 /\ status < 600)

\* rr.py:363  r.status_code in (429, 503)
IsRetryStatus(status) == status \in {429, 503}

\* rr.py:368  r.raise_for_status(): requests raises HTTPError for 4xx and 5xx.
RaisesForStatus(status) == status >= 400 /\ status < 600

\* A mutant of LoopBound: range(retries), one attempt short.
LoopBound_short(r) == r

\* rr.py:359  for _attempt in range(retries + 1)
LoopBound(r) == r + 1

\* A mutant of NextLastErr: the first error is kept.
NextLastErr_first(old, status) == IF old = None THEN status ELSE old

\* rr.py:365  last_err = RuntimeError(f"Got HTTP {r.status_code}")
NextLastErr(old, status) == status

\* The state of a call that has just entered the function with `r` retries.
FetchStart(r) ==
    [pc       |-> IF LoopBound(r) > 0 THEN "loop" ELSE "raised",
     retries  |-> r,
     attempt  |-> 0,
     last_err |-> None,
     gets     |-> 0,
     sleeps   |-> 0,
     backoffs |-> 0,
     log      |-> <<>>,
     kind     |-> IF LoopBound(r) > 0 THEN "none" ELSE "RetriesExhausted",
     carried  |-> None]

\* The common part of one loop iteration: the polite sleep and the GET
\* (rr.py:360-362), which answers `status` with or without a content container.
Requested(status, has_content) ==
    [fetch EXCEPT !.sleeps = @ + 1,
                  !.gets   = @ + 1,
                  !.log    = Append(@, [status |-> status, content |-> has_content])]

\* rr.py:363-366 and 393: 429/503, back off at doubled bounds and go on to the
\* next attempt; when the loop is over, raise last_err.
FetchRetry(status, has_content) ==
    /\ fetch.pc = "loop"
    /\ IsRetryStatus(status)
    /\ LET f    == Requested(status, has_content)
           err  == NextLastErr(fetch.last_err, status)
           over == fetch.attempt + 1 >= LoopBound(fetch.retries)
       IN  fetch' = [f EXCEPT !.backoffs = @ + 1,
                              !.last_err = err,
                              !.attempt  = @ + 1,
                              !.pc       = IF over THEN "raised" ELSE "loop",
                              !.kind     = IF over THEN "RetriesExhausted" ELSE "none",
                              !.carried  = IF over THEN err ELSE None]
    /\ UNCHANGED <<arr, chap, bold, dom, slug, app>>

\* rr.py:368: any other error status raises HTTPError at once.
FetchHttpError(status, has_content) ==
    /\ fetch.pc = "loop"
    /\ ~IsRetryStatus(status)
    /\ RaisesForStatus(status)
    /\ fetch' = [Requested(status, has_content) EXCEPT
                    !.pc = "raised", !.kind = "HttpError", !.carried = status]
    /\ UNCHANGED <<arr, chap, bold, dom, slug, app>>

\* rr.py:379-383: no content container on the page.
FetchNoContent(status) ==
    /\ fetch.pc = "loop"
    /\ ~IsRetryStatus(status)
    /\ ~RaisesForStatus(status)
    /\ fetch' = [Requested(status, FALSE) EXCEPT
                    !.pc = "raised", !.kind = "ContentNotFound"]
    /\ UNCHANGED <<arr, chap, bold, dom, slug, app>>

\* rr.py:370-391: the page is parsed and the four values are returned.
FetchReturn(status) ==
    /\ fetch.pc = "loop"
    /\ ~IsRetryStatus(status)
    /\ ~RaisesForStatus(status)
    /\ fetch' = [Requested(status, TRUE) EXCEPT !.pc = "returned"]
    /\ UNCHANGED <<arr, chap, bold, dom, slug, app>>

InitFetch ==
    /\ \E r \in 0..MaxRetries : fetch = FetchStart(r)
    /\ arr = Idle /\ chap = Idle /\ bold = Idle /\ dom = Idle /\ slug = Idle /\ app = Idle

NextFetch ==
    \E status \in Statuses :
        \/ \E c \in BOOLEAN : FetchRetry(status, c)
        \/ \E c \in BOOLEAN : FetchHttpError(status, c)
        \/ FetchNoContent(status)
        \/ FetchReturn(status)

SpecFetch == InitFetch /\ [][NextFetch]_vars

\* The first n answers of the log are all 429/503 (source statuses, not the
\* model's IsRetryStatus).
AllBusy(n) == \A i \in 1..n : fetch.log[i].status \in {429, 503}

\* C2: when the first k <= retries answers are 429/503 the call is still
\* running after them, and when answer k+1 is 200 with a content container the
\* call has returned after exactly k+1 GET requests.
C2_SucceedsAfterBusy ==
    /\ \A k \in 0..fetch.retries :
          (Len(fetch.log) = k /\ AllBusy(k)) => (fetch.pc = "loop" /\ fetch.gets = k)
    /\ \A k \in 0..fetch.retries :
          ( /\ Len(fetch.log) = k + 1
            /\ AllBusy(k)
            /\ fetch.log[k + 1].status = 200
            /\ fetch.log[k + 1].content )
          => (fetch.pc = "returned" /\ fetch.gets = k + 1)

\* The call returned on its last allowed attempt, after `retries` busy answers.
C2_Witness ==
    /\ fetch.pc = "returned"
    /\ fetch.retries >= 2
    /\ fetch.gets = fetch.retries + 1
    /\ AllBusy(fetch.retries)

\* C3: when every answer is 429/503 the call raises RetriesExhausted exactly
\* when retries+1 GET requests have been issued, carrying the last status seen.
C3_ExhaustedCarriesLast ==
    AllBusy(Len(fetch.log)) =>
        /\ fetch.gets = Len(fetch.log)
        /\ fetch.gets <= fetch.retries + 1
        /\ (fetch.gets = fetch.retries + 1) <=>
              (fetch.pc = "raised" /\ fetch.kind = "RetriesExhausted")
        /\ fetch.pc = "raised" =>
              fetch.carried = fetch.log[Len(fetch.log)].status
        /\ fetch.gets < fetch.retries + 1 => fetch.pc = "loop"

\* Retries ran out on a 429 although the first answer was a 503.
C3_Witness ==
    /\ fetch.pc = "raised"
    /\ fetch.kind = "RetriesExhausted"
    /\ Len(fetch.log) >= 2
    /\ AllBusy(Len(fetch.log))
    /\ fetch.log[1].status = 503
    /\ fetch.carried = 429

\* An error status that is not one of the two transient ones.
HardError(status) == status >= 400 /\ status < 600 /\ status \notin {429, 503}

\* C4: an error status other than 429/503, at any attempt, ends the call with
\* HttpError: it is the last answer of the log, and the only sleeps at doubled
\* bounds are those of the 429/503 answers before it.
C4_HardErrorEndsCall ==
    \A i \in 1..Len(fetch.log) :
        HardError(fetch.log[i].status) =>
            /\ i = Len(fetch.log)
            /\ fetch.pc = "raised"
            /\ fetch.kind = "HttpError"
            /\ fetch.carried = fetch.log[i].status
            /\ fetch.gets = i
            /\ fetch.backoffs = i - 1

\* A 500 on a later attempt, with a retry still left, ended the call.
C4_Witness ==
    /\ fetch.kind = "HttpError"
    /\ Len(fetch.log) = 2
    /\ fetch.log[2].status = 500
    /\ fetch.retries >= 2

(***************************************************************************)
(* _extract_js_array: the bracket-depth scan.                              *)
(***************************************************************************)

\* Bounds of the scan model: the longest text.
MaxTextLen == 6

\* The characters of the scanned texts: the variable's letters, the two
\* brackets and any other character.
ScanChars == {"v", "c", "[", "]"}

\* The variable names looked for ("window.chapters" in the source, rr.py:92):
\* names without brackets.
VarNames == {<<"v">>, <<"v", "c">>}

\* A mutant of DepthAfter: an opening bracket is not counted.
DepthAfter_noOpen(depth, ch) == IF ch = "]" THEN depth - 1 ELSE depth

\* rr.py:63-66  depth += 1 on "[", depth -= 1 on "]"
DepthAfter(depth, ch) ==
    IF ch = "[" THEN depth + 1
    ELSE IF ch = "]" THEN depth - 1
    ELSE depth

\* rr.py:61-70  the loop from 0-based index i with the depth reached so far.
RECURSIVE ScanFrom(_, _, _, _)
ScanFrom(text, bracket_start, i, depth) ==
    IF i >= Len(text)
    THEN [kind |-> "MalformedArray", span |-> <<>>]
    ELSE LET ch == text[i + 1]
             d  == DepthAfter(depth, ch)
         IN  IF ch = "]" /\ d = 0
             THEN [kind |-> "ok", span |-> Slice(text, bracket_start, i + 1)]
             ELSE ScanFrom(text, bracket_start, i + 1, d)

\* rr.py:46-70
ExtractJsArray(text, var_name) ==
    LET idx == Find(text, var_name, 0)
    IN  IF idx = -1
        THEN [kind |-> "VariableNotFound", span |-> <<>>]
        ELSE LET bracket_start == Find(text, <<"[">>, idx)
             IN  IF bracket_start = -1
                 THEN [kind |-> "MalformedArray", span |-> <<>>]
                 ELSE ScanFrom(text, bracket_start, bracket_start, 0)

\* One call of _extract_js_array on the text drawn at the start.
ExtractCall ==
    /\ arr.pc = "called"
    /\ arr' = [arr EXCEPT !.pc = "done",
                          !.res = ExtractJsArray(arr.text, arr.var_name)]
    /\ UNCHANGED <<fetch, chap, bold, dom, slug, app>>

InitArr ==
    /\ \E text \in SeqsUpTo(ScanChars, MaxTextLen), var_name \in VarNames :
          arr = [pc |-> "called", text |-> text, var_name |-> var_name,
                 res |-> [kind |-> "none", span |-> <<>>]]
    /\ fetch = Idle /\ chap = Idle /\ bold = Idle /\ dom = Idle /\ slug = Idle /\ app = Idle

NextArr == ExtractCall

SpecArr == InitArr /\ [][NextArr]_vars

\* 1-based positions of the text at which the variable name starts.
NameStarts == {p \in 1..Len(arr.text) : OccursAt(arr.text, arr.var_name, p - 1)}

\* 1-based position of the first occurrence of the variable name.
FirstName == CHOOSE p \in NameStarts : \A q \in NameStarts : p <= q

\* 1-based positions of the "[" that follow the first occurrence of the name.
OpensAfterName ==
    {p \in (FirstName + Len(arr.var_name))..Len(arr.text) : arr.text[p] = "["}

FirstOpen == CHOOSE p \in OpensAfterName : \A q \in OpensAfterName : p <= q

\* The bracket depth after position e, counted from FirstOpen.
DepthAt(e) ==
    Cardinality({p \in FirstOpen..e : arr.text[p] = "["})
      - Cardinality({p \in FirstOpen..e : arr.text[p] = "]"})

\* The positions of a "]" at which the depth is back to zero.
ZeroCloses == {e \in FirstOpen..Len(arr.text) : arr.text[e] = "]" /\ DepthAt(e) = 0}

\* C5: when the text holds the name followed by a "[", the result is the span
\* from the first "[" after the first occurrence of the name to the first "]"
\* at which the depth counter is back to zero, and MalformedArray with no span
\* when there is no such "]".
C5_SpanIsFirstBalanced ==
    (arr.pc = "done" /\ NameStarts # {} /\ OpensAfterName # {}) =>
        IF ZeroCloses = {}
        THEN arr.res = [kind |-> "MalformedArray", span |-> <<>>]
        ELSE LET e == CHOOSE x \in ZeroCloses : \A y \in ZeroCloses : x <= y
             IN  arr.res = [kind |-> "ok", span |-> SubSeq(arr.text, FirstOpen, e)]

\* A nested array was extracted, with text left after its end.
C5_Witness ==
    /\ arr.pc = "done"
    /\ arr.res.kind = "ok"
    /\ Len(arr.res.span) = 4
    /\ arr.res.span[2] = "["
    /\ Len(arr.text) = 6
    /\ arr.text[6] = "]"

(***************************************************************************)
(* extract_window_chapters: the checks on the parsed array.                *)
(***************************************************************************)

\* Bounds of the chapter-list model: the longest parsed array.
MaxChapters == 2

\* A parsed JSON value: t is its Python type, keys the keys of a dict (or the
\* items of a list of strings), s the characters of a string.
JDict(keys) == [t |-> "dict", keys |-> keys, s |-> <<>>]
JStr(s)     == [t |-> "str",  keys |-> {},   s |-> s]
JList(its)  == [t |-> "list", keys |-> its,  s |-> <<>>]
JNum        == [t |-> "int",  keys |-> {},   s |-> <<>>]
JNull       == [t |-> "NoneType", keys |-> {}, s |-> <<>>]

\* The elements a parsed array is drawn from.
JsonElements ==
    {JDict(k) : k \in SUBSET {"id", "title"}}
      \cup {JStr(<<"x">>), JStr(<<"i", "d">>), JStr(<<"a", "i", "d">>)}
      \cup {JList({}), JList({"id"}), JList({"x"})}
      \cup {JNum, JNull}

\* rr.py:99  "id" in ch, by the Python type of ch: key membership for a dict,
\* substring for a str, item membership for a list, TypeError otherwise.
HasId(ch) ==
    CASE ch.t = "dict" -> IF "id" \in ch.keys THEN "ok" ELSE "MissingId"
      [] ch.t = "str"  -> IF Find(ch.s, <<"i", "d">>, 0) # -1 THEN "ok" ELSE "MissingId"
      [] ch.t = "list" -> IF "id" \in ch.keys THEN "ok" ELSE "MissingId"
      [] OTHER         -> "TypeError"

\* rr.py:98-100  the loop over the entries, stopping at the first failure.
RECURSIVE CheckIds(_, _)
CheckIds(chapters, i) ==
    IF i > Len(chapters) THEN "ok"
    ELSE IF HasId(chapters[i]) # "ok" THEN HasId(chapters[i])
    ELSE CheckIds(chapters, i + 1)

\* rr.py:93-102, on what json.loads made of the array's text: `parsed` is
\* [ok |-> FALSE] when json.loads raised, and else the value it returned.
ExtractWindowChapters(parsed) ==
    IF ~parsed.ok THEN [kind |-> "InvalidArrayJson", value |-> <<>>]
    ELSE IF parsed.t # "list" THEN [kind |-> "NotAList", value |-> <<>>]
    ELSE LET k == CheckIds(parsed.items, 1)
         IN  IF k = "ok" THEN [kind |-> "ok", value |-> parsed.items]
             ELSE [kind |-> k, value |-> <<>>]

ChaptersCall ==
    /\ chap.pc = "called"
    /\ chap' = [chap EXCEPT !.pc = "done", !.res = ExtractWindowChapters(chap.parsed)]
    /\ UNCHANGED <<fetch, arr, bold, dom, slug, app>>

\* What json.loads can make of a span that starts with "[" and ends with "]":
\* a failure, or a list.
ParseOutcomes ==
    {[ok |-> FALSE, t |-> "list", items |-> <<>>]}
      \cup {[ok |-> TRUE, t |-> "list", items |-> its] :
                its \in SeqsUpTo(JsonElements, MaxChapters)}

InitChap ==
    /\ \E parsed \in ParseOutcomes :
          chap = [pc |-> "called", parsed |-> parsed,
                  res |-> [kind |-> "none", value |-> <<>>]]
    /\ fetch = Idle /\ arr = Idle /\ bold = Idle /\ dom = Idle /\ slug = Idle /\ app = Idle

NextChap == ChaptersCall

SpecChap == InitChap /\ [][NextChap]_vars

\* An entry that is a mapping with an "id" field.
MappingWithId(ch) == ch.t = "dict" /\ "id" \in ch.keys

\* C6: a returned value is the parsed array in its order and every entry of it
\* is a mapping with an "id" field; if any entry is not, the call fails with
\* MissingId and returns nothing.
C6_OnlyMappingsWithId ==
    (chap.pc = "done" /\ chap.parsed.ok) =>
        IF \A i \in 1..Len(chap.parsed.items) : MappingWithId(chap.parsed.items[i])
        THEN chap.res = [kind |-> "ok", value |-> chap.parsed.items]
        ELSE chap.res = [kind |-> "MissingId", value |-> <<>>]

(***************************************************************************)
(* bracket_to_bold_html_from_text: the plain-text markup normalizer.       *)
(***************************************************************************)

\* Bounds of the plain-text model: the longest input.
MaxBoldLen == 5

\* The characters of the inputs: a letter and the six bracket characters.
BoldChars == {"a", "<", ">", "[", "]", "{", "}"}

\* The six characters that str.translate deletes (rr.py:145, 197, 205).
BracketChars == {"<", ">", "[", "]", "{", "}"}

\* rr.py:137-141 and 161: the three styles, in the order of the patterns.
Styles == << <<"<", ">">>, <<"[", "]">>, <<"{", "}">> >>

\* rr.py:133  f"@@BOLD{idx}@@"
Token(idx) == "@@BOLD" \o ToString(idx) \o "@@"

\* html.escape on one unit.
EscapeUnit(u) ==
    CASE u = "&"  -> "&amp;"
      [] u = "<"  -> "&lt;"
      [] u = ">"  -> "&gt;"
      [] u = "\"" -> "&quot;"
      [] u = "'"  -> "&#x27;"
      [] OTHER    -> u

\* html.escape (rr.py:134, 147)
Escape(s) == [i \in 1..Len(s) |-> EscapeUnit(s[i])]

\* str.translate with the six brackets mapped to "" (rr.py:145, 197, 205).
RECURSIVE StripBrackets(_)
StripBrackets(s) ==
    IF s = <<>> THEN <<>>
    ELSE IF Head(s) \in BracketChars THEN StripBrackets(Tail(s))
    ELSE <<Head(s)>> \o StripBrackets(Tail(s))

\* The 1-based position at which the pattern  o([^oc]+)c  matched at position
\* pos ends, or 0 when it does not match there: the next o or c after pos must
\* be a c, with at least one unit before it.
MatchEnd(s, pos, o, c) ==
    IF pos > Len(s) \/ s[pos] # o THEN 0
    ELSE LET stops == {q \in (pos + 1)..Len(s) : s[q] \in {o, c}}
         IN  IF stops = {} THEN 0
             ELSE LET q == CHOOSE x \in stops : \A y \in stops : x <= y
                  IN  IF s[q] = c /\ q > pos + 1 THEN q ELSE 0

\* rr.py:134  f"<strong>{html.escape(content)}</strong>"
Mark(content) == <<"<strong>">> \o Escape(content) \o <<"</strong>">>

\* rr.py:143  re.sub(pat, lambda m: mark(m.group(1)), text) for one style:
\* the matches from left to right, each replaced by the next token.
RECURSIVE SubFrom(_, _, _, _, _, _)
SubFrom(text, pos, o, c, out, replacements) ==
    IF pos > Len(text)
    THEN [text |-> out, replacements |-> replacements]
    ELSE LET e == MatchEnd(text, pos, o, c)
         IN  IF e = 0
             THEN SubFrom(text, pos + 1, o, c, out \o <<text[pos]>>, replacements)
             ELSE SubFrom(text, e + 1, o, c,
                          out \o <<Token(Len(replacements))>>,
                          Append(replacements, Mark(SubSeq(text, pos + 1, e - 1))))

\* rr.py:142-143  the three passes, each over the text the pass before left.
RECURSIVE SubPasses(_, _, _)
SubPasses(text, replacements, k) ==
    IF k > Len(Styles)
    THEN [text |-> text, replacements |-> replacements]
    ELSE LET r == SubFrom(text, 1, Styles[k][1], Styles[k][2], <<>>, replacements)
         IN  SubPasses(r.text, r.replacements, k + 1)

\* str.replace(token, rep) on a sequence of units.
RECURSIVE ReplaceUnit(_, _, _)
ReplaceUnit(s, token, rep) ==
    IF s = <<>> THEN <<>>
    ELSE (IF Head(s) = token THEN rep ELSE <<Head(s)>>)
            \o ReplaceUnit(Tail(s), token, rep)

\* rr.py:148-149  the tokens put back, in the order of the replacements.
RECURSIVE PutBack(_, _, _)
PutBack(escaped, replacements, i) ==
    IF i > Len(replacements) THEN escaped
    ELSE PutBack(ReplaceUnit(escaped, Token(i - 1), replacements[i]),
                 replacements, i + 1)

\* rr.py:119-151
BracketToBoldHtmlFromText(text) ==
    LET r       == SubPasses(text, <<>>, 1)
        escaped == Escape(StripBrackets(r.text))
    IN  [out |-> PutBack(escaped, r.replacements, 1),
         replacements |-> r.replacements]

BoldCall ==
    /\ bold.pc = "called"
    /\ LET r == BracketToBoldHtmlFromText(bold.text)
       IN  bold' = [bold EXCEPT !.pc = "done", !.out = r.out,
                                !.replacements = r.replacements]
    /\ UNCHANGED <<fetch, arr, chap, dom, slug, app>>

InitBold ==
    /\ \E n \in 0..MaxBoldLen :
          \E text \in [1..n -> BoldChars] :
             bold = [pc |-> "called", text |-> text, out |-> <<>>, replacements |-> <<>>]
    /\ fetch = Idle /\ arr = Idle /\ chap = Idle /\ dom = Idle /\ slug = Idle /\ app = Idle

NextBold == BoldCall

SpecBold == InitBold /\ [][NextBold]_vars

\* The text holds a complete pair of the style o, c: an o and a later c with at
\* least one unit and no o or c between them.
CompletePair(text, o, c) ==
    \E i, j \in 1..Len(text) :
        /\ i + 1 < j
        /\ text[i] = o
        /\ text[j] = c
        /\ \A k \in (i + 1)..(j - 1) : text[k] \notin {o, c}

\* The units of s.
Units(s) == {s[i] : i \in 1..Len(s)}

\* C7: no bracket character of the input is left in the output, literally or
\* escaped (the delimiters of a pair became markers, every other bracket is
\* removed), and an input without a complete pair yields no bold marker.
C7_NoBracketSurvives ==
    bold.pc = "done" =>
        /\ Units(bold.out) \cap (BracketChars \cup {"&lt;", "&gt;"}) = {}
        /\ (\A k \in 1..Len(Styles) : ~CompletePair(bold.text, Styles[k][1], Styles[k][2]))
              => "<strong>" \notin Units(bold.out)

\* s holds sub as a contiguous run.
Holds(s, sub) == \E i \in 0..Len(s) : OccursAt(s, sub, i)

\* C8: every replaced span is in the output as its own marker with its
\* content, no marker lies inside another, and no placeholder is left.
C8_PassesIndependent ==
    bold.pc = "done" =>
        /\ \A i \in 1..Len(bold.out) :
              \A n \in 0..Len(bold.replacements) : bold.out[i] # Token(n)
        /\ \A i \in 1..Len(bold.replacements) : Holds(bold.out, bold.replacements[i])
        /\ \A i, j \in 1..Len(bold.out) :
              (i < j /\ bold.out[i] = "<strong>" /\ bold.out[j] = "<strong>")
                 => \E k \in (i + 1)..(j - 1) : bold.out[k] = "</strong>"

(***************************************************************************)
(* The fragment tree.                                                      *)
(*                                                                         *)
(* A BeautifulSoup tree is the sequence of its nodes in document order: an *)
(* element is an "open" token, its children and a "close" token; a text    *)
(* node is a "text" token with its characters in s.  The root object is    *)
(* the sequence itself.  id tells the nodes of the input apart: it is the  *)
(* position of the node in the parsed input, kept by the nodes made from   *)
(* it.                                                                     *)
(***************************************************************************)

TextNode(s, id)       == [k |-> "text",  tag |-> "",  attrs |-> {},    s |-> s,    id |-> id]
OpenTag(tag, as, id)  == [k |-> "open",  tag |-> tag, attrs |-> as,    s |-> <<>>, id |-> id]
CloseTag(tag, id)     == [k |-> "close", tag |-> tag, attrs |-> {},    s |-> <<>>, id |-> id]

\* The elements html.parser closes at once: they never have children.
VoidTags == {"br", "hr"}

\* An element with its children.
Element(tag, as, kids) == <<OpenTag(tag, as, 0)>> \o kids \o <<CloseTag(tag, 0)>>

\* The index of the close token of the element opened at i (depth counts the
\* elements open at j).
RECURSIVE CloseOf(_, _, _)
CloseOf(tree, j, depth) ==
    IF tree[j].k = "open" THEN CloseOf(tree, j + 1, depth + 1)
    ELSE IF tree[j].k = "close"
         THEN (IF depth = 1 THEN j ELSE CloseOf(tree, j + 1, depth - 1))
    ELSE CloseOf(tree, j + 1, depth)

\* The index of the last token of the node that starts at i.
NodeEnd(tree, i) == IF tree[i].k = "open" THEN CloseOf(tree, i, 0) ELSE i

\* node.next_sibling: the index of the next sibling of the node at i, 0 for None.
NextSibling(tree, i) ==
    LET j == NodeEnd(tree, i) + 1
    IN  IF j <= Len(tree) /\ tree[j].k # "close" THEN j ELSE 0

\* The indices of the tokens inside the element opened at i (its descendants).
Inside(tree, i) == (i + 1)..(NodeEnd(tree, i) - 1)

\* The tree without the tokens at the indices in gone.
RECURSIVE Without(_, _, _)
Without(tree, gone, i) ==
    IF i > Len(tree) THEN <<>>
    ELSE (IF i \in gone THEN <<>> ELSE <<tree[i]>>) \o Without(tree, gone, i + 1)

(***************************************************************************)
(* _split_bracket_spans and apply_bracket_bolding_to_text_nodes.           *)
(***************************************************************************)

\* rr.py:161  the combined pattern at position pos: the alternatives in the
\* order angle, square, curly; the end of the match or 0.
MatchAnyEnd(s, pos) ==
    LET a == MatchEnd(s, pos, "<", ">")
        b == MatchEnd(s, pos, "[", "]")
        c == MatchEnd(s, pos, "{", "}")
    IN  IF a # 0 THEN a ELSE IF b # 0 THEN b ELSE c

\* rr.py:163-177  finditer from position pos, `last` the end of the match before.
RECURSIVE SplitFrom(_, _, _, _)
SplitFrom(s, pos, last, parts) ==
    IF pos > Len(s)
    THEN (IF last < Len(s)
          THEN Append(parts, [kind |-> "text", val |-> SubSeq(s, last + 1, Len(s))])
          ELSE parts)
    ELSE LET e == MatchAnyEnd(s, pos)
         IN  IF e = 0 THEN SplitFrom(s, pos + 1, last, parts)
             ELSE SplitFrom(s, e + 1, e,
                    (IF pos - 1 > last
                     THEN Append(parts, [kind |-> "text", val |-> SubSeq(s, last + 1, pos - 1)])
                     ELSE parts)
                    \o <<[kind |-> "bold", val |-> SubSeq(s, pos + 1, e - 1)]>>)

\* rr.py:154-177
SplitBracketSpans(s) == SplitFrom(s, 1, 0, <<>>)

\* rr.py:202-209  the nodes made for the segments from index i on.
RECURSIVE NewNodes(_, _, _)
NewNodes(segments, i, id) ==
    IF i > Len(segments) THEN <<>>
    ELSE (IF segments[i].kind = "text"
          THEN <<TextNode(StripBrackets(segments[i].val), id)>>
          ELSE <<OpenTag("strong", {}, id), TextNode(segments[i].val, id),
                 CloseTag("strong", id)>>)
         \o NewNodes(segments, i + 1, id)

\* rr.py:186-216  what one node of the snapshot is replaced by.
BoldedNode(node) ==
    IF node.k # "text" THEN <<node>>
    ELSE IF Units(node.s) \cap BracketChars = {} THEN <<node>>
    ELSE LET segments == SplitBracketSpans(node.s)
         IN  IF Len(segments) = 1 /\ segments[1].kind = "text"
             THEN LET cleaned == StripBrackets(segments[1].val)
                  IN  IF cleaned # node.s THEN <<TextNode(cleaned, node.id)>>
                      ELSE <<node>>
             ELSE NewNodes(segments, 1, node.id)

\* rr.py:180-216  the loop over list(fragment_soup.descendants): the nodes
\* made on the way are not in the snapshot and are not visited.
RECURSIVE ApplyFrom(_, _)
ApplyFrom(tree, i) ==
    IF i > Len(tree) THEN <<>>
    ELSE BoldedNode(tree[i]) \o ApplyFrom(tree, i + 1)

ApplyBracketBoldingToTextNodes(tree) == ApplyFrom(tree, 1)

(***************************************************************************)
(* strip_single_line_between_brs.                                          *)
(***************************************************************************)

\* The whitespace of str.strip(): every character c with c.isspace().  A
\* character without an escape of its own in a string is the unit that
\* spells its Python escape; "\\xa0" is what &nbsp; parses to.
Spaces ==
    {" ", "\t", "\n", "\r", "\f", "\\x0b",
     "\\x1c", "\\x1d", "\\x1e", "\\x1f", "\\x85", "\\xa0",
     "\\u1680", "\\u2000", "\\u2001", "\\u2002", "\\u2003", "\\u2004",
     "\\u2005", "\\u2006", "\\u2007", "\\u2008", "\\u2009", "\\u200a",
     "\\u2028", "\\u2029", "\\u202f", "\\u205f", "\\u3000"}

\* str(x).strip()
RECURSIVE LStrip(_)
LStrip(s) == IF s # <<>> /\ Head(s) \in Spaces THEN LStrip(Tail(s)) ELSE s

RECURSIVE RStrip(_)
RStrip(s) ==
    IF s # <<>> /\ s[Len(s)] \in Spaces THEN RStrip(SubSeq(s, 1, Len(s) - 1)) ELSE s

Trim(s) == RStrip(LStrip(s))

\* rr.py:247, 258, 269  isinstance(x, NavigableString) and not str(x).strip()
IsBlankText(node) == node.k = "text" /\ Trim(node.s) = <<>>

\* rr.py:236-237
IsBr(node) == node.k = "open" /\ node.tag = "br"

\* rr.py:247-248, 258-259  skip the whitespace-only siblings from j on.
RECURSIVE SkipBlank(_, _)
SkipBlank(tree, j) ==
    IF j # 0 /\ IsBlankText(tree[j]) THEN SkipBlank(tree, NextSibling(tree, j)) ELSE j

\* A mutant of ShortEnough: the length of the text is not compared.
ShortEnough_any(text, max_chars) == text # <<>>

\* rr.py:254  not (not text or len(text) > max_chars)
ShortEnough(text, max_chars) == text # <<>> /\ Len(text) <= max_chars

\* rr.py:244-262  the text node to remove for the br at index b, or 0.
Removable(tree, b, max_chars) ==
    LET nxt == SkipBlank(tree, NextSibling(tree, b))
    IN  IF nxt = 0 \/ tree[nxt].k # "text" THEN 0
        ELSE IF ~ShortEnough(Trim(tree[nxt].s), max_chars) THEN 0
        ELSE LET nxt2 == SkipBlank(tree, NextSibling(tree, nxt))
             IN  IF nxt2 # 0 /\ IsBr(tree[nxt2]) THEN nxt ELSE 0

\* rr.py:268-272  drop the whitespace-only text nodes from sibling j on.
RECURSIVE DropBlank(_, _)
DropBlank(tree, j) ==
    IF j <= Len(tree) /\ IsBlankText(tree[j])
    THEN DropBlank(Without(tree, {j}, 1), j)
    ELSE tree

\* rr.py:243-275  one scan: the first br of find_all("br") with a removable
\* text; the tree after the removal, or the tree itself when none matches.
StripScan(tree, max_chars) ==
    LET brs  == {b \in 1..Len(tree) : IsBr(tree[b])}
        hits == {b \in brs : Removable(tree, b, max_chars) # 0}
    IN  IF hits = {} THEN tree
        ELSE LET b == CHOOSE x \in hits : \A y \in hits : x <= y
             IN  DropBlank(Without(tree, {Removable(tree, b, max_chars)}, 1),
                           NodeEnd(tree, b) + 1)

\* rr.py:239-275  while changed
RECURSIVE StripSingleLineBetweenBrs(_, _)
StripSingleLineBetweenBrs(tree, max_chars) ==
    LET t == StripScan(tree, max_chars)
    IN  IF t = tree THEN tree ELSE StripSingleLineBetweenBrs(t, max_chars)

(***************************************************************************)
(* sanitize_fragment_html.                                                 *)
(***************************************************************************)

\* rr.py:280-287
ALLOWED_TAGS ==
    {"p", "br", "em", "i", "strong", "b", "hr", "blockquote", "ul", "ol", "li",
     "h2", "h3", "h4", "pre", "code", "span"}

\* rr.py:289-308 and 327  _ALLOWED_ATTRS.get(tag.name, set())
ALLOWED_ATTRS(tag) ==
    IF tag \in {"span", "p", "blockquote", "hr", "pre", "code", "ul", "ol", "li",
                "h2", "h3", "h4"}
    THEN {"class"}
    ELSE {}

\* A mutant of ScriptsAndStyles: find_all(..., recursive=False), the top
\* level only.
RECURSIVE TopLevelFrom(_, _)
TopLevelFrom(tree, i) ==
    IF i = 0 THEN {} ELSE {i} \cup TopLevelFrom(tree, NextSibling(tree, i))

ScriptsAndStyles_topLevel(tree) ==
    {i \in (IF tree = <<>> THEN {} ELSE TopLevelFrom(tree, 1)) :
        tree[i].k = "open" /\ tree[i].tag \in {"script", "style"}}

\* rr.py:320  frag.find_all(["script", "style"]): at any depth.
ScriptsAndStyles(tree) ==
    {i \in 1..Len(tree) : tree[i].k = "open" /\ tree[i].tag \in {"script", "style"}}

\* rr.py:320-321  bad.decompose() for each: the element and all it holds.
DecomposeScripts(tree) ==
    LET bad  == ScriptsAndStyles(tree)
        gone == UNION {i..NodeEnd(tree, i) : i \in bad}
    IN  Without(tree, gone, 1)

\* rr.py:327-331  the attributes left on an allowed tag.
KeptAttrs(tag, attrs) == attrs \cap ALLOWED_ATTRS(tag)

\* rr.py:323-331  the loop over list(frag.find_all(True)): unwrap removes the
\* tag and leaves its children in its place.
RECURSIVE FilterFrom(_, _)
FilterFrom(tree, i) ==
    IF i > Len(tree) THEN <<>>
    ELSE LET n == tree[i]
         IN  (IF n.k = "text" THEN <<n>>
              ELSE IF n.tag \notin ALLOWED_TAGS THEN <<>>
              ELSE IF n.k = "open" THEN <<[n EXCEPT !.attrs = KeptAttrs(n.tag, @)]>>
              ELSE <<n>>)
             \o FilterFrom(tree, i + 1)

FilterTags(tree) == FilterFrom(tree, 1)

\* The attribute names of the model, in the order they are written out.
AttrNames == <<"class", "style", "onclick">>

RECURSIVE AttrText(_, _)
AttrText(attrs, i) ==
    IF i > Len(AttrNames) THEN ""
    ELSE (IF AttrNames[i] \in attrs THEN " " \o AttrNames[i] \o "=\"v\"" ELSE "")
            \o AttrText(attrs, i + 1)

\* The start tag of an element as one unit; a void element is written <br/>.
StartTag(tag, attrs) ==
    "<" \o tag \o AttrText(attrs, 1) \o (IF tag \in VoidTags THEN "/>" ELSE ">")

EndTag(tag) == "</" \o tag \o ">"

\* The escaping of the output formatter on one unit of text.
FormatUnit(u) ==
    CASE u = "&" -> "&amp;"
      [] u = "<" -> "&lt;"
      [] u = ">" -> "&gt;"
      [] OTHER   -> u

\* rr.py:335  frag.decode_contents()
RECURSIVE DecodeContents(_, _)
DecodeContents(tree, i) ==
    IF i > Len(tree) THEN <<>>
    ELSE LET n == tree[i]
         IN  (CASE n.k = "text"  -> [j \in 1..Len(n.s) |-> FormatUnit(n.s[j])]
                [] n.k = "open"  -> <<StartTag(n.tag, n.attrs)>>
                [] n.k = "close" -> IF n.tag \in VoidTags THEN <<>> ELSE <<EndTag(n.tag)>>)
             \o DecodeContents(tree, i + 1)

\* rr.py:334  max_chars=200
SanitizeMaxChars == 200

\* rr.py:311-335, on the parsed fragment.
SanitizeFragmentHtml(frag) ==
    LET filtered == FilterTags(DecomposeScripts(frag))
        bolded   == ApplyBracketBoldingToTextNodes(filtered)
        stripped == StripSingleLineBetweenBrs(bolded, SanitizeMaxChars)
    IN  [tree |-> stripped, out |-> DecodeContents(stripped, 1)]

\* Bounds of the sanitizer model: the most nodes of an input fragment.
MaxNodes == 3

\* The text nodes of the input fragments.
SanTexts == {<<"a">>, <<"[", "a", "]">>}

\* The elements of the input fragments that may have children.
SanContainers ==
    {[tag |-> "script", attrs |-> {}], [tag |-> "style", attrs |-> {}],
     [tag |-> "div", attrs |-> {"onclick"}],
     [tag |-> "p", attrs |-> {"class", "style"}],
     [tag |-> "em", attrs |-> {"class"}]}

\* What html.parser can produce as the children of an element: script and
\* style hold raw text only, at most one text node.
KidsFit(tag, kids) ==
    tag \in {"script", "style"} => (kids = <<>> \/ (Len(kids) = 1 /\ kids[1].k = "text"))

\* The fragments of exactly n nodes.
RECURSIVE Forests(_)
Forests(n) ==
    IF n = 0 THEN {<<>>}
    ELSE UNION {
           LET firsts ==
                 IF m = 0
                 THEN {<<TextNode(t, 0)>> : t \in SanTexts}
                        \cup {Element("br", {}, <<>>)}
                        \cup {Element(c.tag, c.attrs, <<>>) : c \in SanContainers}
                 ELSE UNION {{Element(c.tag, c.attrs, kids) :
                                kids \in {x \in Forests(m) : KidsFit(c.tag, x)}} :
                             c \in SanContainers}
           IN  {f \o r : f \in firsts, r \in Forests(n - 1 - m)}
         : m \in 0..(n - 1)}

\* The node ids of a parsed fragment: the positions.
WithIds(tree) == [i \in 1..Len(tree) |-> [tree[i] EXCEPT !.id = i]]

\* The parser joins neighbouring text: no two text nodes are adjacent.
WellParsed(tree) ==
    \A i \in 1..(Len(tree) - 1) : ~(tree[i].k = "text" /\ tree[i + 1].k = "text")

SanitizeCall ==
    /\ dom.pc = "called"
    /\ LET r == SanitizeFragmentHtml(dom.input)
       IN  dom' = [dom EXCEPT !.pc = "done", !.tree = r.tree, !.out = r.out]
    /\ UNCHANGED <<fetch, arr, chap, bold, slug, app>>

InitSanitize ==
    /\ \E n \in 0..MaxNodes :
          \E f \in Forests(n) :
             /\ WellParsed(f)
             /\ dom = [pc |-> "called", input |-> WithIds(f), tree |-> <<>>, out |-> <<>>]
    /\ fetch = Idle /\ arr = Idle /\ chap = Idle /\ bold = Idle /\ slug = Idle /\ app = Idle

NextSanitize == SanitizeCall

SpecSanitize == InitSanitize /\ [][NextSanitize]_vars

\* The ids of the nodes of the input that lie inside a script or style element.
ScriptContentIds ==
    UNION {Inside(dom.input, i) :
             i \in {j \in 1..Len(dom.input) :
                      dom.input[j].k = "open" /\ dom.input[j].tag \in {"script", "style"}}}

\* Every start and end tag the inputs and the bolding pass can be written with.
AllTagUnits ==
    {StartTag(t, as) : t \in {c.tag : c \in SanContainers} \cup {"br", "strong"},
                       as \in SUBSET {"class", "style", "onclick"}}
      \cup {EndTag(t) : t \in {c.tag : c \in SanContainers} \cup {"br", "strong"}}

\* Those of them the allow-lists permit (from the spec's section 6: class, and
\* only on the tags that take it; none on em, strong, br).
PermittedTagUnits ==
    {StartTag("p", as) : as \in SUBSET {"class"}}
      \cup {StartTag("em", {}), StartTag("strong", {}), StartTag("br", {}),
            EndTag("p"), EndTag("em"), EndTag("strong")}

\* C1: the sanitized tree has no element outside the tag allow-list, no
\* attribute outside the allow-list of its tag, no script or style element and
\* no node that comes from inside one; and its serialisation has no tag but
\* the permitted ones and no bare angle bracket.
C1_OnlyAllowedMarkup ==
    dom.pc = "done" =>
        /\ \A i \in 1..Len(dom.tree) :
              /\ dom.tree[i].k \in {"open", "close"} =>
                    /\ dom.tree[i].tag \in
                          {"p", "br", "em", "i", "strong", "b", "hr", "blockquote",
                           "ul", "ol", "li", "h2", "h3", "h4", "pre", "code", "span"}
                    /\ dom.tree[i].attrs \subseteq {"class"}
                    /\ dom.tree[i].tag \in {"em", "i", "strong", "b", "br"} =>
                          dom.tree[i].attrs = {}
              /\ dom.tree[i].id \notin ScriptContentIds
        /\ Units(dom.out) \cap (AllTagUnits \ PermittedTagUnits) = {}
        /\ Units(dom.out) \cap {"<", ">"} = {}

\* A script with text, nested in a div that was unwrapped, was dropped with
\* its text: nothing is left of the fragment.
C1_Witness ==
    /\ dom.pc = "done"
    /\ \E i \in 1..Len(dom.input) :
          /\ dom.input[i].k = "open" /\ dom.input[i].tag = "div"
          /\ \E j \in Inside(dom.input, i) :
                /\ dom.input[j].k = "open" /\ dom.input[j].tag = "script"
                /\ Inside(dom.input, j) # {}
    /\ dom.out = <<>>

(***************************************************************************)
(* apply_bracket_bolding_to_text_nodes, applied to its own output.         *)
(***************************************************************************)

\* Bounds of the bolding model: the longest text node.
MaxNodeText == 4

\* A fragment the pass is applied to: one text node, bare or in an em.
BoldingInput(t, wrapped) ==
    WithIds(IF wrapped THEN Element("em", {}, <<TextNode(t, 0)>>) ELSE <<TextNode(t, 0)>>)

\* One call of the pass on the tree the call before left.
ApplyCall ==
    /\ dom.pc = "bolding"
    /\ dom.passes < 2
    /\ dom' = [dom EXCEPT !.passes = @ + 1,
                          !.prev   = dom.tree,
                          !.tree   = ApplyBracketBoldingToTextNodes(dom.tree)]
    /\ UNCHANGED <<fetch, arr, chap, bold, slug, app>>

InitBolding ==
    /\ \E n \in 1..MaxNodeText :
          \E t \in [1..n -> BoldChars], wrapped \in BOOLEAN :
             LET frag == BoldingInput(t, wrapped)
             IN  dom = [pc |-> "bolding", input |-> frag, tree |-> frag, prev |-> frag,
                        passes |-> 0]
    /\ fetch = Idle /\ arr = Idle /\ chap = Idle /\ bold = Idle /\ slug = Idle /\ app = Idle

NextBolding == ApplyCall

SpecBolding == InitBolding /\ [][NextBolding]_vars

\* C9: the second application of the pass, to the tree the first one made,
\* changes nothing.
C9_SecondPassChangesNothing ==
    (dom.pc = "bolding" /\ dom.passes = 2) => dom.tree = dom.prev

(***************************************************************************)
(* strip_single_line_between_brs, called on its own.                       *)
(***************************************************************************)

\* Bounds of the noise-stripper model: the most siblings of a fragment.
MaxSiblings == 4

\* The thresholds the function is called with.
MaxCharsChoices == {1, 2}

\* The text nodes of the fragments: whitespace only (a space, a carriage
\* return), one character with and without whitespace around it, two and
\* three characters.
StripTexts ==
    {<<" ">>, <<"\r">>, <<"a">>, <<" ", "a", " ">>, <<"a", "\r">>,
     <<"a", "a">>, <<"a", "a", "a">>}

\* The siblings: a text node, a br, an element that is not a br.
StripItems ==
    {<<TextNode(t, 0)>> : t \in StripTexts}
      \cup {Element("br", {}, <<>>), Element("em", {}, <<>>)}

RECURSIVE Flatten(_)
Flatten(items) == IF items = <<>> THEN <<>> ELSE Head(items) \o Flatten(Tail(items))

\* A fragment: the siblings at the top level, or inside a p that sits between
\* two br elements.  Text nodes may be adjacent, as they are after the
\* sanitizer unwrapped an element between them.
StripInput(items, wrapped) ==
    WithIds(IF wrapped
            THEN Element("br", {}, <<>>) \o Element("p", {}, Flatten(items))
                    \o Element("br", {}, <<>>)
            ELSE Flatten(items))

StripCall(max_chars) ==
    /\ dom.pc = "called"
    /\ dom' = [dom EXCEPT !.pc = "done", !.max_chars = max_chars,
                          !.tree = StripSingleLineBetweenBrs(dom.input, max_chars)]
    /\ UNCHANGED <<fetch, arr, chap, bold, slug, app>>

InitStrip ==
    /\ \E n \in 0..MaxSiblings :
          \E items \in [1..n -> StripItems], wrapped \in BOOLEAN :
             LET frag == StripInput(items, wrapped)
             IN  dom = [pc |-> "called", input |-> frag, tree |-> frag, max_chars |-> 0]
    /\ fetch = Idle /\ arr = Idle /\ chap = Idle /\ bold = Idle /\ slug = Idle /\ app = Idle

NextStrip == \E max_chars \in MaxCharsChoices : StripCall(max_chars)

SpecStrip == InitStrip /\ [][NextStrip]_vars

\* The text nodes of the input fragment.
TextAt(i) == dom.input[i].k = "text"

\* The run of sibling text nodes around the text node at i: lo..hi.
RunLo(i) == CHOOSE lo \in 1..i :
               /\ \A j \in lo..i : TextAt(j)
               /\ (lo = 1 \/ ~TextAt(lo - 1))

RunHi(i) == CHOOSE hi \in i..Len(dom.input) :
               /\ \A j \in i..hi : TextAt(j)
               /\ (hi = Len(dom.input) \/ ~TextAt(hi + 1))

\* The characters of a text with the whitespace at its two ends cut off,
\* counted without the model's Trim.
TrimmedLen(s) ==
    LET inked == {j \in 1..Len(s) : s[j] \notin Spaces}
    IN  IF inked = {} THEN 0
        ELSE (CHOOSE x \in inked : \A y \in inked : y <= x)
               - (CHOOSE x \in inked : \A y \in inked : x <= y) + 1

\* The text node at i may be removed: the run of text nodes it is in lies
\* between two br elements, exactly one node of the run is not whitespace
\* only, that one has a trimmed length of 1..max_chars, and the node at i is
\* that one or is whitespace only.
MayBeRemoved(i) ==
    /\ TextAt(i)
    /\ LET lo == RunLo(i)
           hi == RunHi(i)
           inked == {j \in lo..hi : TrimmedLen(dom.input[j].s) > 0}
       IN  /\ lo > 1
           /\ dom.input[lo - 1].k = "close" /\ dom.input[lo - 1].tag = "br"
           /\ hi < Len(dom.input)
           /\ dom.input[hi + 1].k = "open" /\ dom.input[hi + 1].tag = "br"
           /\ Cardinality(inked) = 1
           /\ \A j \in inked : TrimmedLen(dom.input[j].s) <= dom.max_chars

\* C10: the tree after the call is the input without some of the text nodes
\* that may be removed: every other node is still there, unchanged and in order.
C10_OnlyNoiseRemoved ==
    dom.pc = "done" =>
        \E gone \in SUBSET {i \in 1..Len(dom.input) : MayBeRemoved(i)} :
            dom.tree = Without(dom.input, gone, 1)

\* A line of one character with whitespace around it, and the whitespace-only
\* node beside it, were removed from between two br elements.
C10_Witness ==
    /\ dom.pc = "done"
    /\ dom.max_chars = 1
    /\ Len(dom.input) = 6
    /\ IsBr(dom.input[1])
    /\ dom.input[3].s = <<" ">>
    /\ dom.input[4].s = <<" ", "a", " ">>
    /\ IsBr(dom.input[5])
    /\ Len(dom.tree) = 4

(***************************************************************************)
(* parse_fiction_slug: the fiction URL and its "<id>/<slug>" key.          *)
(*                                                                         *)
(* A URL is a sequence of units: the origin "https://h" (a scheme and the  *)
(* first character of a host), the separator "/", the word "fiction", a    *)
(* digit and a letter.                                                     *)
(***************************************************************************)

\* Bound of the URL model: the units after the optional origin.
MaxUrlLen == 6

Origin == "https://h"

UrlUnits == {"/", "fiction", "1", "s"}

\* The lowest 1-based index >= i of a "/" in s, or Len(s) + 1.
RECURSIVE SlashFrom(_, _)
SlashFrom(s, i) ==
    IF i > Len(s) \/ s[i] = "/" THEN i ELSE SlashFrom(s, i + 1)

\* urlparse(fiction_url), its netloc and path: the host runs from the "//"
\* of the origin (or of a scheme-less URL) up to the next "/".
UrlParse(url) ==
    IF Len(url) >= 1 /\ url[1] = Origin
    THEN LET e == SlashFrom(url, 2)
         IN  [netloc |-> <<"h">> \o SubSeq(url, 2, e - 1),
              path   |-> SubSeq(url, e, Len(url))]
    ELSE IF Len(url) >= 2 /\ url[1] = "/" /\ url[2] = "/"
    THEN LET e == SlashFrom(url, 3)
         IN  [netloc |-> SubSeq(url, 3, e - 1),
              path   |-> SubSeq(url, e, Len(url))]
    ELSE [netloc |-> <<>>, path |-> url]

\* str.lstrip("/") and str.rstrip("/").
RECURSIVE LStripSlash(_)
LStripSlash(s) ==
    IF s # <<>> /\ Head(s) = "/" THEN LStripSlash(Tail(s)) ELSE s

RECURSIVE RStripSlash(_)
RStripSlash(s) ==
    IF s # <<>> /\ s[Len(s)] = "/"
    THEN RStripSlash(SubSeq(s, 1, Len(s) - 1))
    ELSE s

\* path.strip("/")
StripSlash(s) == RStripSlash(LStripSlash(s))

\* path.split("/"): one part per separator, plus one; parts may be empty,
\* and "".split("/") is [""].
RECURSIVE SplitSlash(_)
SplitSlash(s) ==
    LET e == SlashFrom(s, 1)
    IN  IF e > Len(s) THEN <<s>>
        ELSE <<SubSeq(s, 1, e - 1)>> \o SplitSlash(SubSeq(s, e + 1, Len(s)))

\* str.isdigit(): not empty, and every character a digit.
IsDigit(s) == s # <<>> /\ \A i \in 1..Len(s) : s[i] = "1"

\* The three ValueErrors of parse_fiction_slug, by the name of their
\* condition, and a returned key.
SlugError(kind) == [kind |-> kind, value |-> <<>>]
SlugOk(value) == [kind |-> "ok", value |-> value]

ParseFictionSlug(fiction_url) ==
    LET p     == UrlParse(fiction_url)
        path  == StripSlash(p.path)
        parts == SplitSlash(path)
    IN  IF p.netloc = <<>> THEN SlugError("InvalidUrl")
        ELSE IF Len(parts) < 3 \/ parts[1] # <<"fiction">>
        THEN SlugError("InvalidFormat")
        ELSE IF ~IsDigit(parts[2]) THEN SlugError("InvalidId")
        ELSE SlugOk(parts[2] \o <<"/">> \o parts[3])

\* One call of parse_fiction_slug on the URL at hand.
SlugCall ==
    /\ slug.pc = "ready"
    /\ slug' = [slug EXCEPT !.pc = "done",
                            !.out = ParseFictionSlug(slug.url)]
    /\ UNCHANGED <<fetch, arr, chap, bold, dom, app>>

InitSlug ==
    /\ \E origin \in BOOLEAN : \E n \in 0..MaxUrlLen :
         \E rest \in [1..n -> UrlUnits] :
           slug = [pc  |-> "ready",
                   url |-> (IF origin THEN <<Origin>> ELSE <<>>) \o rest,
                   out |-> SlugOk(<<>>)]
    /\ fetch = Idle /\ arr = Idle /\ chap = Idle /\ bold = Idle
    /\ dom = Idle /\ app = Idle

NextSlug == SlugCall

SpecSlug == InitSlug /\ [][NextSlug]_vars

\* The path of a URL as the claim reads it: the non-empty maximal runs of
\* units other than "/", in order.
RECURSIVE Segments(_)
Segments(s) ==
    IF s = <<>> THEN <<>>
    ELSE IF Head(s) = "/" THEN Segments(Tail(s))
    ELSE LET e == SlashFrom(s, 1)
         IN  <<SubSeq(s, 1, e - 1)>> \o Segments(SubSeq(s, e, Len(s)))

\* What the claim says the call yields.
Expected(url) ==
    LET p    == UrlParse(url)
        segs == Segments(p.path)
    IN  IF p.netloc = <<>> THEN SlugError("InvalidUrl")
        ELSE IF Len(segs) < 3 \/ segs[1] # <<"fiction">>
        THEN SlugError("InvalidFormat")
        ELSE IF ~IsDigit(segs[2]) THEN SlugError("InvalidId")
        ELSE SlugOk(segs[2] \o <<"/">> \o segs[3])

\* C11: a URL without a host fails with InvalidUrl; with a host, the path is
\* split on "/" and every empty segment is discarded, the call fails with
\* InvalidFormat unless three segments remain and the first is "fiction",
\* with InvalidId unless the second is all digits, and otherwise returns
\* "<second>/<third>" with both components non-empty.
C11_EmptySegmentsDiscarded ==
    slug.pc = "done" =>
        /\ slug.out = Expected(slug.url)
        /\ slug.out.kind = "ok" =>
             LET e == SlashFrom(slug.out.value, 1)
             IN  e > 1 /\ e < Len(slug.out.value)

(***************************************************************************)
(* compile_chunk (src/app.py) over the chapter cache (src/cache.py).       *)
(*                                                                         *)
(* app.db is the chapter table, one row per (fiction_slug, chapter_id);    *)
(* the column fetched_at, which nothing reads, is left out of a row.  The  *)
(* server runs a thread per request, so the steps of two requests          *)
(* interleave at every access to the table.  The fiction cache is written  *)
(* by load_fiction, so each request draws what get_fiction_cached finds.   *)
(* A text the code builds is a tuple of its pieces.                        *)
(***************************************************************************)

\* None, where the code expects a dict or None.
Absent == [absent |-> TRUE]

\* Bound of the request model: the comma-separated fields of "ids".
MaxIdFields == 2

Slugs == {"f"}

ChapterIds == {1, 2}

\* A field of ids_raw.split(","): a number, blank, or not a number.
IdFields == {"1", "2", "", "x"}

\* The messages of the exceptions fetch_chapter_content may raise.
Errors == {"e1", "e2"}

\* The pages the site may serve for a chapter path.
Pages == {"p"}

\* x.strip() of a field is empty.
IsBlankField(x) == x = ""

\* int(x) of a field; raises ValueError on "x".
IsIntField(x) == x \in {"1", "2"}

IntOf(x) == IF x = "1" THEN 1 ELSE 2

\* if not ids_raw: the stripped parameter is empty.
MissingIds(fields) == Len(fields) = 1 /\ IsBlankField(fields[1])

\* The fields that reach int(): [... for x in ids_raw.split(",") if x.strip()]
RECURSIVE NonBlank(_)
NonBlank(fields) ==
    IF fields = <<>> THEN <<>>
    ELSE IF IsBlankField(Head(fields)) THEN NonBlank(Tail(fields))
    ELSE <<Head(fields)>> \o NonBlank(Tail(fields))

BadIds(fields) ==
    \E i \in 1..Len(NonBlank(fields)) : ~IsIntField(NonBlank(fields)[i])

ParseIds(fields) ==
    [i \in 1..Len(NonBlank(fields)) |-> IntOf(NonBlank(fields)[i])]

\* What get_fiction_cached may find: nothing, or a chapter list, of which
\* the handler uses whether every id converts with int() and which ids
\* carry a url: a list with an id that does not convert, and a list that
\* gives a url for chapter 1 and none for chapter 2.
CachedChoices ==
    {Absent, [ids_ok |-> FALSE, urls |-> {}], [ids_ok |-> TRUE, urls |-> {1}]}

\* The path handed to fetch_chapter_content.
ChapterPath(fiction_slug, cid, cached) ==
    IF cid \in cached.urls THEN <<"url of ", cid>>
    ELSE <<"/fiction/", fiction_slug, "/chapter/", cid>>

\* The four values fetch_chapter_content returns for a page.
Fetched(page) ==
    [title        |-> <<"title of ", page>>,
     text_raw     |-> <<"text of ", page>>,
     text_html    |-> <<"html text of ", page>>,
     content_html |-> <<"content of ", page>>]

\* A mutant of Placeholder: the body does not carry the error.
Placeholder_noMessage(cid, e) ==
    LET body == <<"[Failed to fetch chapter ", cid, "]">>
    IN  [title        |-> <<"Chapter ", cid>>,
         text_raw     |-> body,
         text_html    |-> body,
         content_html |-> body]

\* The four values of the except branch.
Placeholder(cid, e) ==
    LET body == <<"[Failed to fetch chapter ", cid, ": ", e, "]">>
    IN  [title        |-> <<"Chapter ", cid>>,
         text_raw     |-> body,
         text_html    |-> body,
         content_html |-> body]

\* CacheDB.get_chapter: the row, or None.
GetChapter(db, fiction_slug, chapter_id) == db[<<fiction_slug, chapter_id>>]

\* CacheDB.put_chapter: insert, or replace the row on conflict.
PutChapter(db, fiction_slug, chapter_id, row) ==
    [db EXCEPT ![<<fiction_slug, chapter_id>>] = row]

\* if disk_hit: a row is a non-empty dict.
DiskHit(disk_hit) == disk_hit # Absent

\* The part appended for a row or for a fetch: the same four fields.
PartOf(row) ==
    [title        |-> row.title,
     text_raw     |-> row.text_raw,
     text_html    |-> row.text_html,
     content_html |-> row.content_html]

NoResponse == [kind |-> "none", parts |-> <<>>]

\* The threads of the server: requests are served side by side, and the
\* handler takes no lock.
Requests == {"A", "B"}

\* The requests drawn for a thread: A serves requests of up to MaxIdFields
\* fields, B requests of one field.
MaxFieldsOf(r) == IF r = "A" THEN MaxIdFields ELSE 1

\* A thread between two requests.
Ready ==
    [pc           |-> "ready",
     fiction_slug |-> "f",
     chapter_ids  |-> <<>>,
     cached       |-> Absent,
     parts        |-> <<>>,
     trace        |-> <<>>,
     local        |-> Absent,
     resp         |-> NoResponse]

\* The request state before the loop.
Request(fiction_slug, ids, cached) ==
    [Ready EXCEPT !.fiction_slug = fiction_slug,
                  !.chapter_ids = ids,
                  !.cached = cached]

\* The thread after its request: the locals are gone, the response and, for
\* the properties, the ids it was asked for remain.
Returned(fiction_slug, ids, kind, parts) ==
    [Ready EXCEPT !.fiction_slug = fiction_slug,
                  !.chapter_ids = ids,
                  !.resp = [kind |-> kind, parts |-> parts]]

\* A request that ends before the loop, with the given response.
EarlyReturn(r, fiction_slug, kind) ==
    app' = [app EXCEPT !.req[r] = Returned(fiction_slug, <<>>, kind, <<>>)]

\* if not ids_raw: redirect to show_chunks.
CompileMissingIds(r) ==
    /\ app.req[r].pc = "ready"
    /\ \E fiction_slug \in Slugs, n \in 1..MaxFieldsOf(r) :
         \E fields \in [1..n -> IdFields] :
           /\ MissingIds(fields)
           /\ EarlyReturn(r, fiction_slug, "redirect show_chunks")
    /\ UNCHANGED <<fetch, arr, chap, bold, dom, slug>>

\* except ValueError: redirect to show_chunks.
CompileBadIds(r) ==
    /\ app.req[r].pc = "ready"
    /\ \E fiction_slug \in Slugs, n \in 1..MaxFieldsOf(r) :
         \E fields \in [1..n -> IdFields] :
           /\ ~MissingIds(fields)
           /\ BadIds(fields)
           /\ EarlyReturn(r, fiction_slug, "redirect show_chunks")
    /\ UNCHANGED <<fetch, arr, chap, bold, dom, slug>>

\* if not cached: redirect to index.
CompileNoFiction(r) ==
    /\ app.req[r].pc = "ready"
    /\ \E fiction_slug \in Slugs, n \in 1..MaxFieldsOf(r) :
         \E fields \in [1..n -> IdFields] :
           /\ ~MissingIds(fields)
           /\ ~BadIds(fields)
           /\ EarlyReturn(r, fiction_slug, "redirect index")
    /\ UNCHANGED <<fetch, arr, chap, bold, dom, slug>>

\* chapters_by_id = {int(ch["id"]): ...} raises on an id that is no number.
CompileBadChapterList(r) ==
    /\ app.req[r].pc = "ready"
    /\ \E fiction_slug \in Slugs, n \in 1..MaxFieldsOf(r) :
         \E fields \in [1..n -> IdFields], cached \in CachedChoices :
           /\ ~MissingIds(fields)
           /\ ~BadIds(fields)
           /\ cached # Absent
           /\ ~cached.ids_ok
           /\ EarlyReturn(r, fiction_slug, "error")
    /\ UNCHANGED <<fetch, arr, chap, bold, dom, slug>>

\* The request reaches the loop with compiled_parts = [].
CompileEnter(r) ==
    /\ app.req[r].pc = "ready"
    /\ \E fiction_slug \in Slugs, n \in 1..MaxFieldsOf(r) :
         \E fields \in [1..n -> IdFields], cached \in CachedChoices :
           /\ ~MissingIds(fields)
           /\ ~BadIds(fields)
           /\ cached # Absent
           /\ cached.ids_ok
           /\ app' = [app EXCEPT !.req[r] =
                         [Request(fiction_slug, ParseIds(fields), cached)
                              EXCEPT !.pc = "loop"]]
    /\ UNCHANGED <<fetch, arr, chap, bold, dom, slug>>

\* The chapter id of the iteration thread r is in.
Cid(r) == app.req[r].chapter_ids[Len(app.req[r].parts) + 1]

InLoop(r) ==
    /\ app.req[r].pc = "loop"
    /\ Len(app.req[r].parts) < Len(app.req[r].chapter_ids)

\* What an iteration did, for the properties: the row read and the fetches
\* made.
Step(cid, disk_hit, fetched) ==
    [cid      |-> cid,
     disk_hit |-> disk_hit,
     fetched  |-> fetched]

\* One iteration: get_chapter returns the row, which becomes the part.
ChapterFromDisk(r) ==
    /\ InLoop(r)
    /\ LET q        == app.req[r]
           disk_hit == GetChapter(app.db, q.fiction_slug, Cid(r))
       IN  /\ DiskHit(disk_hit)
           /\ app' = [app EXCEPT
                  !.req[r].parts = Append(q.parts, PartOf(disk_hit)),
                  !.req[r].trace = Append(q.trace,
                                     Step(Cid(r), disk_hit, <<>>))]
    /\ UNCHANGED <<fetch, arr, chap, bold, dom, slug>>

\* get_chapter returns None: the thread goes on to fetch_chapter_content,
\* which sleeps and waits for the site.
ChapterMiss(r) ==
    /\ InLoop(r)
    /\ LET q        == app.req[r]
           disk_hit == GetChapter(app.db, q.fiction_slug, Cid(r))
       IN  /\ ~DiskHit(disk_hit)
           /\ app' = [app EXCEPT
                  !.req[r].pc = "fetch",
                  !.req[r].local =
                      [disk_hit |-> disk_hit,
                       path     |-> ChapterPath(q.fiction_slug, Cid(r),
                                                q.cached)]]
    /\ UNCHANGED <<fetch, arr, chap, bold, dom, slug>>

\* The rest of the iteration of a fetch, from its outcome on: put_chapter of
\* the four values, and the part appended.  Between the outcome and the
\* write the thread touches nothing another thread sees.
Store(r, outcome, row) ==
    LET q == app.req[r]
    IN  app' = [app EXCEPT
            !.db = PutChapter(app.db, q.fiction_slug, Cid(r), row),
            !.req[r].pc = "loop",
            !.req[r].local = Absent,
            !.req[r].parts = Append(q.parts, PartOf(row)),
            !.req[r].trace =
                Append(q.trace,
                       Step(Cid(r), q.local.disk_hit,
                            <<[path    |-> q.local.path,
                               outcome |-> outcome]>>))]

\* fetch_chapter_content returns a page.
ChapterFetched(r) ==
    /\ app.req[r].pc = "fetch"
    /\ \E page \in Pages :
         Store(r, [ok |-> TRUE, of |-> page], Fetched(page))
    /\ UNCHANGED <<fetch, arr, chap, bold, dom, slug>>

\* fetch_chapter_content raises.
ChapterFailed(r) ==
    /\ app.req[r].pc = "fetch"
    /\ \E e \in Errors :
         Store(r, [ok |-> FALSE, of |-> e], Placeholder(Cid(r), e))
    /\ UNCHANGED <<fetch, arr, chap, bold, dom, slug>>

\* After the loop: the download body or the page, built from the parts.
CompileRender(r) ==
    /\ app.req[r].pc = "loop"
    /\ Len(app.req[r].parts) = Len(app.req[r].chapter_ids)
    /\ app' = [app EXCEPT !.req[r] =
                   Returned(app.req[r].fiction_slug, app.req[r].chapter_ids,
                            "compiled", app.req[r].parts)]
    /\ UNCHANGED <<fetch, arr, chap, bold, dom, slug>>

\* An empty chapter table, and no request under way.
InitApp ==
    /\ app = [db  |-> [k \in Slugs \X ChapterIds |-> Absent],
              req |-> [r \in Requests |-> Ready]]
    /\ fetch = Idle /\ arr = Idle /\ chap = Idle /\ bold = Idle
    /\ dom = Idle /\ slug = Idle

NextApp ==
    \E r \in Requests :
      \/ CompileMissingIds(r)
      \/ CompileBadIds(r)
      \/ CompileNoFiction(r)
      \/ CompileBadChapterList(r)
      \/ CompileEnter(r)
      \/ ChapterFromDisk(r)
      \/ ChapterMiss(r)
      \/ ChapterFetched(r)
      \/ ChapterFailed(r)
      \/ CompileRender(r)

SpecApp == InitApp /\ [][NextApp]_vars

\* The iteration fetched and the fetch raised / returned.
FetchFailed(t) == t.fetched # <<>> /\ ~t.fetched[1].outcome.ok

FetchSucceeded(t) == t.fetched # <<>> /\ t.fetched[1].outcome.ok

\* The parts of thread r are one per finished iteration, in the order of the
\* requested ids, each what its iteration read or fetched.
PartsFollowIds(r) ==
    LET q == app.req[r]
    IN  /\ Len(q.parts) = Len(q.trace)
        /\ Len(q.trace) <= Len(q.chapter_ids)
        /\ \A i \in 1..Len(q.trace) :
             LET cid  == q.chapter_ids[i]
                 t    == q.trace[i]
                 part == q.parts[i]
             IN  /\ t.cid = cid
                 /\ t.fetched # <<>> =>
                      /\ Len(t.fetched) = 1
                      /\ t.fetched[1].path =
                           ChapterPath(q.fiction_slug, cid, q.cached)
                 /\ t.fetched = <<>> => part = PartOf(t.disk_hit)
                 /\ FetchSucceeded(t) =>
                      part = Fetched(t.fetched[1].outcome.of)
                 /\ FetchFailed(t) =>
                      LET e    == t.fetched[1].outcome.of
                          body == <<"[Failed to fetch chapter ", cid,
                                    ": ", e, "]">>
                      IN  /\ part.title = <<"Chapter ", cid>>
                          /\ part.text_raw = body
                          /\ part.text_html = body
                          /\ part.content_html = body

\* The parts a request may hold for a chapter id.
PartsFor(cid) ==
    {PartOf(Fetched(page)) : page \in Pages}
        \cup {PartOf(Placeholder(cid, e)) : e \in Errors}

\* The loop of thread r is over.
LoopDone(r) ==
    /\ app.req[r].pc = "loop"
    /\ Len(app.req[r].parts) = Len(app.req[r].chapter_ids)

\* C12: a request that reaches the loop leaves it with exactly one part per
\* requested chapter id, in request order, whatever the fetches did: the
\* part of a failed fetch is the placeholder whose body carries the error
\* message, and every id after it is still looked up, fetched and included;
\* the compiled answer has one part per requested id, each a part of its id.
C12_OnePartPerRequestedId ==
    \A r \in Requests :
      LET q == app.req[r]
      IN  /\ PartsFollowIds(r)
          /\ q.pc = "ready" /\ q.chapter_ids # <<>> => q.resp.kind = "compiled"
          /\ q.resp.kind = "compiled" =>
               /\ Len(q.resp.parts) = Len(q.chapter_ids)
               /\ \A i \in 1..Len(q.chapter_ids) :
                    q.resp.parts[i] \in PartsFor(q.chapter_ids[i])

\* The loop is over for two ids: the first fetch failed, the second id was
\* still fetched and its page is the second part.
C12_Witness ==
    \E r \in Requests :
      LET q == app.req[r]
      IN  /\ LoopDone(r)
          /\ q.chapter_ids = <<1, 2>>
          /\ FetchFailed(q.trace[1])
          /\ FetchSucceeded(q.trace[2])
          /\ q.parts[1].text_raw =
               <<"[Failed to fetch chapter ", 1, ": ", "e2", "]">>
          /\ q.parts[2] = Fetched("p")

\* Every iteration of thread r either read a row and served it without a
\* fetch, or read none, fetched once and served what the fetch produced.
HitOrOneFetch(r) ==
    LET q == app.req[r]
    IN  \A i \in 1..Len(q.trace) :
          LET t == q.trace[i]
          IN  IF t.disk_hit # Absent
              THEN /\ t.fetched = <<>>
                   /\ q.parts[i] = PartOf(t.disk_hit)
              ELSE /\ Len(t.fetched) = 1
                   /\ q.parts[i] =
                        PartOf(IF t.fetched[1].outcome.ok
                               THEN Fetched(t.fetched[1].outcome.of)
                               ELSE Placeholder(t.cid, t.fetched[1].outcome.of))

\* No thread is in a fetch for an id whose row the table holds.
NoFetchOfStoredId ==
    \A r \in Requests :
      app.req[r].pc = "fetch" =>
        app.db[<<app.req[r].fiction_slug, Cid(r)>>] = Absent

\* The table holds a row for every id of a compiled answer.
AnsweredIdsStored ==
    \A r \in Requests :
      app.req[r].resp.kind = "compiled" =>
        \A i \in 1..Len(app.req[r].chapter_ids) :
          app.db[<<app.req[r].fiction_slug, app.req[r].chapter_ids[i]>>]
            # Absent

\* A row in the table, a placeholder included, is the row from then on.
RowStays == \A k \in DOMAIN app.db : app.db[k] # Absent => app.db'[k] = app.db[k]

\* C13: over any sequence of requests, an id whose row the table holds is
\* served from that row with no fetch; an id without a row is fetched once
\* and what the fetch produced, page or placeholder, is written and served;
\* so the table holds a row for every id of a compiled answer, and a row
\* once stored, a placeholder included, is what every later request gets
\* for the id: the id is never fetched again and the row never replaced.
C13_ServedFromCacheOrFetchedOnce ==
    /\ [](/\ \A r \in Requests : HitOrOneFetch(r)
          /\ NoFetchOfStoredId
          /\ AnsweredIdsStored)
    /\ [][RowStays]_vars

=============================================================================
